---- MODULE Spec2Model ----
(***************************************************************************)
(* Model of google_docs_mcp_server/server.py: the tab helpers              *)
(* (_flatten_tabs, _find_tab, _resolve_tab, _body_end_index,               *)
(* _extract_text_from_body) and the tool handlers built on them.           *)
(*                                                                         *)
(* Python strings that the code inspects character by character (titles,   *)
(* text runs, inserted text) are sequences of one-character strings; tab   *)
(* identifiers, which the code only compares for equality, are strings.    *)
(* A Python dict is a record; a key that a dict may lack, like a value     *)
(* that may be None, is a sequence of length 0 (absent) or 1 (present).    *)
(***************************************************************************)
EXTENDS Integers, Sequences, FiniteSets, TLC

VARIABLES
    doc,   \* the document held by the remote document service
    ret,   \* the last call of a tab helper: [fn, args, out]
    inv    \* the tool invocations in flight, one per caller

vars == <<doc, ret, inv>>

----------------------------------------------------------------------------
(* Bounds of the model *)

\* the largest number of tabs in a document's tab tree
MaxTabs == 3

\* the largest number of structural elements in a content body
MaxElements == 2

\* the largest number of requests in a batch given to batch_update
MaxRequests == 2

----------------------------------------------------------------------------
(* Strings *)

Missing == "<missing>"

\* str.lower() on the characters the model uses
LowerChar(c) ==
    CASE c = "N" -> "n"
      [] c = "O" -> "o"
      [] c = "T" -> "t"
      [] OTHER -> c

Lower(s) == [i \in DOMAIN s |-> LowerChar(s[i])]

----------------------------------------------------------------------------
(* Documents *)

\* tabProperties.tabId and tabProperties.title of the tabs of a document
DocTabIds == {"a", "b"}
DocTitles == {<<"N", "o">>, <<"N", "O">>, <<"T">>}

TabLabels == [tabId : DocTabIds, title : DocTitles]

\* the tab trees of exactly n tabs, not yet placed in a document
RECURSIVE Forests(_)
Forests(n) ==
    IF n = 0 THEN {<<>>}
    ELSE UNION { { <<[tabId |-> l.tabId, title |-> l.title, childTabs |-> c]>> \o r :
                       l \in TabLabels, c \in Forests(k - 1), r \in Forests(n - k) } :
                 k \in 1..n }

\* A content body: an object owned by one tab (addr is the owner's place in
\* the tree, the body's identity) holding the structural elements.
Body(addr, content) == [addr |-> addr, content |-> content]

\* The tabs as the service returns them: each with its sibling index and its
\* own documentTab.body.
RECURSIVE Place(_, _)
Place(f, prefix) ==
    [i \in DOMAIN f |->
        [tabId     |-> f[i].tabId,
         title     |-> f[i].title,
         index     |-> i - 1,
         body      |-> Body(prefix \o <<i>>, <<>>),
         childTabs |-> Place(f[i].childTabs, prefix \o <<i>>)]]

\* doc.get("body", {}) of a document without tabs
LegacyBody == Body(<<>>, <<>>)

Document(tabs, body) == [tabs |-> tabs, body |-> body]

----------------------------------------------------------------------------
(* _flatten_tabs *)

\* the depth passed to the recursive call for a child (depth + 1)
ChildDepthSame(depth) == depth
ChildDepth(depth) == depth + 1

FlatEntry(tab, depth) ==
    [tabId |-> tab.tabId, title |-> tab.title, index |-> tab.index,
     depth |-> depth, tab |-> tab]

RECURSIVE _flatten_tabs(_, _)
RECURSIVE FlattenFrom(_, _, _)
RECURSIVE FlattenChildren(_, _, _)

\* for child in tab.get("childTabs", []): result.extend(_flatten_tabs([child], depth + 1))
FlattenChildren(children, j, depth) ==
    IF j > Len(children) THEN <<>>
    ELSE _flatten_tabs(<<children[j]>>, ChildDepth(depth))
             \o FlattenChildren(children, j + 1, depth)

\* for tab in tabs: result.append(entry); then the children
FlattenFrom(tabs, i, depth) ==
    IF i > Len(tabs) THEN <<>>
    ELSE <<FlatEntry(tabs[i], depth)>>
             \o FlattenChildren(tabs[i].childTabs, 1, depth)
             \o FlattenFrom(tabs, i + 1, depth)

_flatten_tabs(tabs, depth) == FlattenFrom(tabs, 1, depth)

----------------------------------------------------------------------------
(* _find_tab *)

\* the two tests of the loop body, in the order the code makes them
EntryMatches(entry, tab_id, tab_title) ==
    \/ tab_id # "" /\ entry.tabId = tab_id
    \/ tab_title # <<>> /\ Lower(entry.title) = Lower(tab_title)

RECURSIVE FindFrom(_, _, _, _)
FindFrom(flat, i, tab_id, tab_title) ==
    IF i > Len(flat) THEN <<>>
    ELSE IF EntryMatches(flat[i], tab_id, tab_title) THEN <<flat[i].tab>>
    ELSE FindFrom(flat, i + 1, tab_id, tab_title)

_find_tab(tabs, tab_id, tab_title) ==
    FindFrom(_flatten_tabs(tabs, 0), 1, tab_id, tab_title)

----------------------------------------------------------------------------
(* _resolve_tab *)

Return(body, tabId) == [kind |-> "return", value |-> <<body, tabId>>]
\* raise ValueError(f"Tab not found: id={tab_id!r} title={tab_title!r}")
TabNotFound(tab_id, tab_title) ==
    [kind |-> "ValueError", value |-> <<"Tab not found", tab_id, tab_title>>]

\* the lookup of a requested tab (the branch `if tab_id or tab_title`)
ResolveRequestedFirst(tabs, tab_id, tab_title) ==
    Return(tabs[1].body, tabs[1].tabId)
ResolveRequested(tabs, tab_id, tab_title) ==
    LET tab == _find_tab(tabs, tab_id, tab_title)
    IN  IF tab = <<>> THEN TabNotFound(tab_id, tab_title)
        ELSE Return(tab[1].body, tab[1].tabId)

_resolve_tab(d, tab_id, tab_title) ==
    IF d.tabs = <<>> THEN Return(d.body, "")
    ELSE IF tab_id # "" \/ tab_title # <<>>
         THEN ResolveRequested(d.tabs, tab_id, tab_title)
         ELSE Return(d.tabs[1].body, d.tabs[1].tabId)

----------------------------------------------------------------------------
(* Content bodies *)

NL == "\n"

\* an inline element of a paragraph: a text run with its content, or an
\* inline object without one (elem.get("textRun") is None)
TextRun(content) == [textRun |-> <<content>>]
InlineObject == [textRun |-> <<>>]

\* the named styles of paragraphs; Missing: the paragraph has no
\* paragraphStyle.namedStyleType
NamedStyles ==
    {"HEADING_1", "HEADING_2", "HEADING_3", "HEADING_4", "HEADING_5",
     "HEADING_6", "TITLE", "SUBTITLE", "NORMAL_TEXT", Missing}

\* para.get("elements", []) of the paragraphs of the model
ElementLists ==
    { <<>>,
      <<InlineObject>>,
      <<TextRun(<<NL>>)>>,
      <<TextRun(<<"x", NL>>)>>,
      <<TextRun(<<"x">>), TextRun(<<"y", NL>>)>>,
      <<TextRun(<<NL, "x", NL>>), InlineObject, TextRun(<<NL>>)>> }

\* a structural element: a paragraph, or another kind (a table, a section
\* break) that has no "paragraph" key
Paragraph(style, elements) ==
    [paragraph |-> <<[namedStyleType |-> style, elements |-> elements]>>]
NonParagraph == [paragraph |-> <<>>]

StructuralElements ==
    {NonParagraph} \cup
    { Paragraph(st, el) : st \in NamedStyles, el \in ElementLists }

RECURSIVE Concat(_)
Concat(seqs) == IF seqs = <<>> THEN <<>> ELSE Head(seqs) \o Concat(Tail(seqs))

\* the characters an element takes in the body's offset space
ElementLength(e) ==
    IF e.paragraph = <<>> THEN 1
    ELSE Len(Concat([i \in DOMAIN e.paragraph[1].elements |->
                LET r == e.paragraph[1].elements[i].textRun
                IN  IF r = <<>> THEN <<"?">> ELSE r[1]]))

\* the elements as the service returns them, each with its endIndex; the
\* first addressable index of a body is 1
RECURSIVE Indexed(_, _)
Indexed(elements, start) ==
    IF elements = <<>> THEN <<>>
    ELSE LET e == Head(elements)
             end == start + ElementLength(e)
         IN  <<[paragraph |-> e.paragraph, endIndex |-> end]>>
                 \o Indexed(Tail(elements), end)

----------------------------------------------------------------------------
(* _extract_text_from_body *)

\* heading_map.get(named_style, "")
HeadingPrefix(named_style) ==
    CASE named_style = "HEADING_1" -> <<"#", " ">>
      [] named_style = "HEADING_2" -> <<"#", "#", " ">>
      [] named_style = "HEADING_3" -> <<"#", "#", "#", " ">>
      [] named_style = "HEADING_4" -> <<"#", "#", "#", "#", " ">>
      [] named_style = "HEADING_5" -> <<"#", "#", "#", "#", "#", " ">>
      [] named_style = "HEADING_6" -> <<"#", "#", "#", "#", "#", "#", " ">>
      [] named_style = "TITLE" -> <<"#", " ">>
      [] named_style = "SUBTITLE" -> <<"#", "#", " ">>
      [] OTHER -> <<>>

\* line_parts: the content of each element that has a text run
RECURSIVE LineParts(_, _)
LineParts(elements, i) ==
    IF i > Len(elements) THEN <<>>
    ELSE LET text_run == elements[i].textRun
         IN  (IF text_run # <<>> THEN <<text_run[1]>> ELSE <<>>)
                 \o LineParts(elements, i + 1)

\* line.rstrip("\n")
RECURSIVE RStripNewlines(_)
RStripNewlines(line) ==
    IF line # <<>> /\ line[Len(line)] = NL
    THEN RStripNewlines(SubSeq(line, 1, Len(line) - 1))
    ELSE line

\* what one paragraph appends to parts
EmitAlways(prefix, line_stripped) == <<prefix \o line_stripped>>
Emit(prefix, line_stripped) ==
    IF line_stripped # <<>> THEN <<prefix \o line_stripped>>
    ELSE IF prefix = <<>> THEN << <<>> >>
    ELSE <<>>

RECURSIVE ExtractParts(_, _)
ExtractParts(content, i) ==
    IF i > Len(content) THEN <<>>
    ELSE IF content[i].paragraph = <<>> THEN ExtractParts(content, i + 1)
    ELSE LET para == content[i].paragraph[1]
             named_style == IF para.namedStyleType = Missing
                            THEN "NORMAL_TEXT" ELSE para.namedStyleType
             line == Concat(LineParts(para.elements, 1))
             prefix == HeadingPrefix(named_style)
             line_stripped == RStripNewlines(line)
         IN  Emit(prefix, line_stripped) \o ExtractParts(content, i + 1)

\* "\n".join(parts)
RECURSIVE JoinLines(_)
JoinLines(parts) ==
    IF parts = <<>> THEN <<>>
    ELSE IF Len(parts) = 1 THEN parts[1]
    ELSE parts[1] \o <<NL>> \o JoinLines(Tail(parts))

_extract_text_from_body(body) == JoinLines(ExtractParts(body.content, 1))

----------------------------------------------------------------------------
(* _body_end_index *)

_body_end_index(body) ==
    IF body.content = <<>> THEN 1
    ELSE body.content[Len(body.content)].endIndex - 1

----------------------------------------------------------------------------
(* Edit requests *)

\* A request is a dict of one operation name to the operation's body, held
\* as the sequence of its items <<op_name, op_body>>.  A key of an operation
\* body is present (<<value>>) or absent (<<>>); isDict is FALSE for a body
\* that is not a dict.  nested is a dict one level further down, under a
\* key that is none of the keys the code looks for.
Location(index, tabId) == [index |-> index, tabId |-> tabId]
Range(startIndex, endIndex, tabId) ==
    [startIndex |-> startIndex, endIndex |-> endIndex, tabId |-> tabId]

EmptyOp ==
    [isDict |-> TRUE, location |-> <<>>, range |-> <<>>,
     insertionLocation |-> <<>>, containsText |-> <<>>, tabsCriteria |-> <<>>,
     text |-> <<>>, replaceText |-> <<>>, nested |-> <<>>]

NotADict == [EmptyOp EXCEPT !.isDict = FALSE]

Request(op_name, op_body) == << <<op_name, op_body>> >>

\* {"insertText": {"location": location, "text": text}}
InsertTextRequest(location, text) ==
    Request("insertText",
            [EmptyOp EXCEPT !.location = <<location>>, !.text = <<text>>])

\* {"replaceAllText": {"containsText": {...}, "replaceText": replace_with}}
ReplaceAllTextRequest(find, replace_with, match_case) ==
    Request("replaceAllText",
            [EmptyOp EXCEPT
                !.containsText = <<[text |-> find, matchCase |-> match_case]>>,
                !.replaceText = <<replace_with>>])

TabsCriteria(tab_id) == [tabIds |-> <<tab_id>>]

----------------------------------------------------------------------------
(* The scope rewriting of batch_update *)

\* if key in op_body and "tabId" not in op_body[key]: op_body[key]["tabId"] = id
InjectAlways(field, resolved_tab_id) ==
    IF field # <<>>
    THEN <<[field[1] EXCEPT !.tabId = <<resolved_tab_id>>]>>
    ELSE field
InjectTabId(field, resolved_tab_id) ==
    IF field # <<>> /\ field[1].tabId = <<>>
    THEN <<[field[1] EXCEPT !.tabId = <<resolved_tab_id>>]>>
    ELSE field

\* if "containsText" in op_body and "tabsCriteria" not in op_body
InjectCriteriaNever(op_body, resolved_tab_id) == op_body.tabsCriteria
InjectCriteria(op_body, resolved_tab_id) ==
    IF op_body.containsText # <<>> /\ op_body.tabsCriteria = <<>>
    THEN <<TabsCriteria(resolved_tab_id)>>
    ELSE op_body.tabsCriteria

\* the body of the loop over req.items()
ScopeOpBody(op_body, resolved_tab_id) ==
    IF ~op_body.isDict THEN op_body
    ELSE [op_body EXCEPT
            !.location = InjectTabId(@, resolved_tab_id),
            !.range = InjectTabId(@, resolved_tab_id),
            !.insertionLocation = InjectTabId(@, resolved_tab_id),
            !.tabsCriteria = InjectCriteria(op_body, resolved_tab_id)]

ScopeRequest(req, resolved_tab_id) ==
    [k \in DOMAIN req |-> <<req[k][1], ScopeOpBody(req[k][2], resolved_tab_id)>>]

\* if resolved_tab_id: for req in requests: ...
ScopeRequests(requests, resolved_tab_id) ==
    IF resolved_tab_id # ""
    THEN [k \in DOMAIN requests |-> ScopeRequest(requests[k], resolved_tab_id)]
    ELSE requests

----------------------------------------------------------------------------
(* The remote document service *)

\* The service is outside the repository.  The model keeps what the tools
\* read back from it: the tab tree and, of every body, the end offsets of
\* its structural elements.  An insertText moves the end offsets behind its
\* index; the effect of any other operation on the offsets is not modelled.
\* A batch is applied as a whole or rejected as a whole.

TabIdsOf(d) ==
    LET flat == _flatten_tabs(d.tabs, 0)
    IN  { flat[i].tabId : i \in 1..Len(flat) }

\* the body an unscoped or scoped location addresses, if the document has it
TargetBody(d, tabId) ==
    IF d.tabs = <<>> THEN (IF tabId = <<>> THEN <<d.body>> ELSE <<>>)
    ELSE IF tabId = <<>> THEN <<d.tabs[1].body>>
    ELSE LET tab == _find_tab(d.tabs, tabId[1], <<>>)
         IN  IF tab = <<>> THEN <<>> ELSE <<tab[1].body>>

\* one past the last addressable index of a body
SegmentEnd(body) ==
    IF body.content = <<>> THEN 2
    ELSE body.content[Len(body.content)].endIndex

\* the body after `length` characters were inserted at `index`
Inserted(body, index, length) ==
    LET content == body.content
    IN  [body EXCEPT !.content =
            IF content = <<>>
            THEN <<[paragraph |-> <<>>, endIndex |-> 2 + length]>>
            ELSE [k \in DOMAIN content |->
                    IF content[k].endIndex > index
                    THEN [content[k] EXCEPT !.endIndex = @ + length]
                    ELSE content[k]]]

RECURSIVE InsertedInTabs(_, _, _, _)
InsertedInTabs(tabs, addr, index, length) ==
    [k \in DOMAIN tabs |->
        [tabs[k] EXCEPT
            !.body = IF @.addr = addr THEN Inserted(@, index, length) ELSE @,
            !.childTabs = InsertedInTabs(@, addr, index, length)]]

\* the tab scopes an operation body names
ScopesOf(op_body) ==
    { f[1].tabId[1] : f \in { g \in {op_body.location, op_body.range,
                                      op_body.insertionLocation} :
                               g # <<>> /\ g[1].tabId # <<>> } }
    \cup (IF op_body.tabsCriteria = <<>> THEN {}
          ELSE { op_body.tabsCriteria[1].tabIds[k] :
                    k \in DOMAIN op_body.tabsCriteria[1].tabIds })

\* whether the service accepts one operation on document d
Accepts(d, item) ==
    LET op_body == item[2]
    IN  /\ op_body.isDict
        /\ ScopesOf(op_body) \subseteq TabIdsOf(d)
        /\ item[1] = "insertText" =>
              /\ op_body.location # <<>>
              /\ LET target == TargetBody(d, op_body.location[1].tabId)
                 IN  /\ target # <<>>
                     /\ op_body.location[1].index >= 1
                     /\ op_body.location[1].index < SegmentEnd(target[1])

\* document d after one accepted operation
Applied(d, item) ==
    IF item[1] = "insertText"
    THEN LET loc == item[2].location[1]
             target == TargetBody(d, loc.tabId)[1]
             length == Len(item[2].text[1])
         IN  [d EXCEPT
                !.body = IF @.addr = target.addr
                         THEN Inserted(@, loc.index, length) ELSE @,
                !.tabs = InsertedInTabs(@, target.addr, loc.index, length)]
    ELSE d

\* the items of a batch, in order
Items(requests) == Concat(requests)

\* the outcome of a batch on document d: <<accepted, document afterwards>>
RECURSIVE Executed(_, _)
Executed(d, items) ==
    IF items = <<>> THEN <<TRUE, d>>
    ELSE IF ~Accepts(d, Head(items)) THEN <<FALSE, d>>
    ELSE Executed(Applied(d, Head(items)), Tail(items))

----------------------------------------------------------------------------
(* Tool invocations *)

\* One invocation per caller.  pc names the remote call the handler is about
\* to make ("get", "create", "batchUpdate", "list") or how it ended
\* ("returned", "raised").  The handler's code between two remote calls is
\* one step with the call before it.
Callers == {"c1", "c2"}

NoArgs ==
    [tab_id |-> "", tab_title |-> <<>>, text |-> <<>>, index |-> 0,
     requests |-> <<>>]

NoResult == [kind |-> "none", value |-> <<>>]

Idle ==
    [pc |-> "idle", tool |-> "none", args |-> NoArgs,
     resolved_tab_id |-> "", body |-> <<>>, payload |-> <<>>,
     target |-> "none", calls |-> <<>>, result |-> NoResult]

\* a remote call of an invocation, as it went
Call(api, ok, requests, endOffset) ==
    [api |-> api, ok |-> ok, requests |-> requests, endOffset |-> endOffset]

\* .execute() raised: the handler catches nothing, the invocation ends
HttpError(api) == [kind |-> "HttpError", value |-> <<api>>]

Returned(i, value) ==
    [i EXCEPT !.pc = "returned", !.result = [kind |-> "return", value |-> value]]
Raised(i, error) == [i EXCEPT !.pc = "raised", !.result = error]

\* the handler is about to call documents().batchUpdate with `requests`
Forwarding(i, resolved_tab_id, requests) ==
    [i EXCEPT !.pc = "batchUpdate", !.resolved_tab_id = resolved_tab_id,
              !.payload = requests, !.target = "document"]

\* location = {"index": index}; if tab id: location["tabId"] = tab id
LocationFor(index, tab_id) ==
    Location(index, IF tab_id # "" THEN <<tab_id>> ELSE <<>>)

(* append_text, after the fetch *)

\* if end_idx > 1: text = "\n" + text
AppendedText(end_idx, text) == IF end_idx > 1 THEN <<NL>> \o text ELSE text

AppendTextFetched(i, d) ==
    LET r == _resolve_tab(d, i.args.tab_id, i.args.tab_title)
    IN  IF r.kind # "return" THEN Raised(i, r)
        ELSE LET body == r.value[1]
                 resolved_tab_id == r.value[2]
                 end_idx == _body_end_index(body)
                 text == AppendedText(end_idx, i.args.text)
             IN  [Forwarding(i, resolved_tab_id,
                     <<InsertTextRequest(LocationFor(end_idx, resolved_tab_id), text)>>)
                  EXCEPT !.body = <<body>>]

(* insert_text *)

InsertTextStart(i) ==
    IF i.args.tab_id # ""
    THEN Forwarding(i, i.args.tab_id,
            <<InsertTextRequest(LocationFor(i.args.index, i.args.tab_id), i.args.text)>>)
    ELSE IF i.args.tab_title # <<>> THEN [i EXCEPT !.pc = "get"]
    ELSE Forwarding(i, "",
            <<InsertTextRequest(LocationFor(i.args.index, ""), i.args.text)>>)

InsertTextFetched(i, d) ==
    LET r == _resolve_tab(d, "", i.args.tab_title)
    IN  IF r.kind # "return" THEN Raised(i, r)
        ELSE Forwarding(i, r.value[2],
                <<InsertTextRequest(LocationFor(i.args.index, r.value[2]), i.args.text)>>)

(* replace_text *)

Find == <<"x">>
ReplaceWith == <<"y">>

ReplaceTextRequests(resolved_tab_id) ==
    LET request == ReplaceAllTextRequest(Find, ReplaceWith, TRUE)
    IN  IF resolved_tab_id # ""
        THEN << <<  <<request[1][1],
                     [request[1][2] EXCEPT
                         !.tabsCriteria = <<TabsCriteria(resolved_tab_id)>>]>> >> >>
        ELSE <<request>>

ReplaceTextStart(i) ==
    IF i.args.tab_id = "" /\ i.args.tab_title # <<>>
    THEN [i EXCEPT !.pc = "get"]
    ELSE Forwarding(i, i.args.tab_id, ReplaceTextRequests(i.args.tab_id))

ReplaceTextFetched(i, d) ==
    LET r == _resolve_tab(d, "", i.args.tab_title)
    IN  IF r.kind # "return" THEN Raised(i, r)
        ELSE Forwarding(i, r.value[2], ReplaceTextRequests(r.value[2]))

(* batch_update *)

BatchUpdateStart(i) ==
    IF i.args.tab_id = "" /\ i.args.tab_title # <<>>
    THEN [i EXCEPT !.pc = "get"]
    ELSE Forwarding(i, i.args.tab_id,
                    ScopeRequests(i.args.requests, i.args.tab_id))

\* (a handler that would swallow the resolver's error and go on unscoped)
BatchUpdateFetchedAnyway(i, d) ==
    LET r == _resolve_tab(d, "", i.args.tab_title)
    IN  IF r.kind # "return" THEN Forwarding(i, "", i.args.requests)
        ELSE Forwarding(i, r.value[2], ScopeRequests(i.args.requests, r.value[2]))
BatchUpdateFetched(i, d) ==
    LET r == _resolve_tab(d, "", i.args.tab_title)
    IN  IF r.kind # "return" THEN Raised(i, r)
        ELSE Forwarding(i, r.value[2], ScopeRequests(i.args.requests, r.value[2]))

(* read_document, list_tabs, get_document_info *)

\* the text of one tab, or of every tab under its header
ReadDocumentFetched(i, d) ==
    IF i.args.tab_id # "" \/ i.args.tab_title # <<>>
    THEN LET r == _resolve_tab(d, i.args.tab_id, i.args.tab_title)
         IN  IF r.kind # "return" THEN Raised(i, r)
             ELSE LET tab == _find_tab(d.tabs, r.value[2], <<>>)
                      tab_name == IF tab # <<>> THEN tab[1].title ELSE <<>>
                  IN  Returned([i EXCEPT !.body = <<r.value[1]>>,
                                         !.resolved_tab_id = r.value[2]],
                               <<tab_name, _extract_text_from_body(r.value[1])>>)
    ELSE IF d.tabs = <<>>
    THEN Returned(i, <<_extract_text_from_body(d.body)>>)
    ELSE LET flat == _flatten_tabs(d.tabs, 0)
         IN  Returned(i, [k \in DOMAIN flat |->
                            [heading_level |-> flat[k].depth + 2,
                             tab_name |-> flat[k].title,
                             text |-> _extract_text_from_body(flat[k].tab.body)]])

ListTabsFetched(i, d) ==
    LET flat == _flatten_tabs(d.tabs, 0)
    IN  Returned(i, [k \in DOMAIN flat |->
                        [tabId |-> flat[k].tabId, title |-> flat[k].title,
                         index |-> flat[k].index, depth |-> flat[k].depth]])

GetDocumentInfoFetched(i, d) ==
    LET flat == _flatten_tabs(d.tabs, 0)
    IN  Returned(i, [k \in DOMAIN flat |->
                        [tabId |-> flat[k].tabId, title |-> flat[k].title]])

(* create_document *)

\* if body_text: batchUpdate on the new document, at index 1
CreateDocumentCreated(i) ==
    IF i.args.text # <<>>
    THEN [i EXCEPT !.pc = "batchUpdate", !.target = "created",
                   !.payload = <<InsertTextRequest(Location(1, <<>>), i.args.text)>>]
    ELSE Returned(i, <<"created">>)

(* the steps *)

\* the handler up to its first remote call
Started(i) ==
    CASE i.tool \in {"list_tabs", "read_document", "get_document_info",
                     "append_text"} -> [i EXCEPT !.pc = "get"]
      [] i.tool = "create_document" -> [i EXCEPT !.pc = "create"]
      [] i.tool = "list_documents" -> [i EXCEPT !.pc = "list"]
      [] i.tool = "insert_text" -> InsertTextStart(i)
      [] i.tool = "replace_text" -> ReplaceTextStart(i)
      [] i.tool = "batch_update" -> BatchUpdateStart(i)

\* the handler from the fetched document to its next remote call or its end
Fetched(i, d) ==
    CASE i.tool = "list_tabs" -> ListTabsFetched(i, d)
      [] i.tool = "read_document" -> ReadDocumentFetched(i, d)
      [] i.tool = "get_document_info" -> GetDocumentInfoFetched(i, d)
      [] i.tool = "append_text" -> AppendTextFetched(i, d)
      [] i.tool = "insert_text" -> InsertTextFetched(i, d)
      [] i.tool = "replace_text" -> ReplaceTextFetched(i, d)
      [] i.tool = "batch_update" -> BatchUpdateFetched(i, d)

Called(i, call) == [i EXCEPT !.calls = Append(@, call)]

\* a remote call raised: nothing catches it
FailedRetrying(i, api, requests) == Called(i, Call(api, FALSE, requests, <<>>))
Failed(i, api, requests) ==
    Raised(Called(i, Call(api, FALSE, requests, <<>>)), HttpError(api))

\* the append offset, when the batch is executed, of the body that the
\* first location of the batch addresses (kept for the record of the call)
EndOffsetAtExecution(d, requests) ==
    LET items == Items(requests)
    IN  IF items # <<>> /\ items[1][2].isDict /\ items[1][2].location # <<>>
        THEN LET target == TargetBody(d, items[1][2].location[1].tabId)
             IN  IF target = <<>> THEN <<>> ELSE <<_body_end_index(target[1])>>
        ELSE <<>>

Invoke(c, tool, args) ==
    /\ inv[c].pc = "idle"
    /\ inv' = [inv EXCEPT ![c] = Started([Idle EXCEPT !.tool = tool, !.args = args])]
    /\ UNCHANGED <<doc, ret>>

GetOk(c) ==
    /\ inv[c].pc = "get"
    /\ inv' = [inv EXCEPT ![c] =
                 Fetched(Called(inv[c], Call("get", TRUE, <<>>, <<>>)), doc)]
    /\ UNCHANGED <<doc, ret>>

GetFail(c) ==
    /\ inv[c].pc = "get"
    /\ inv' = [inv EXCEPT ![c] = Failed(inv[c], "get", <<>>)]
    /\ UNCHANGED <<doc, ret>>

BatchUpdateOk(c) ==
    /\ inv[c].pc = "batchUpdate"
    /\ LET i == inv[c]
           d == IF i.target = "document" THEN doc
                ELSE Document(<<>>, Body(<<>>, <<>>))
           done == Executed(d, Items(i.payload))
       IN  /\ done[1]
           /\ doc' = IF i.target = "document" THEN done[2] ELSE doc
           /\ inv' = [inv EXCEPT ![c] =
                        Returned(Called(i, Call("batchUpdate", TRUE, i.payload,
                                    EndOffsetAtExecution(d, i.payload))),
                                 <<"ok", i.resolved_tab_id>>)]
    /\ UNCHANGED ret

BatchUpdateFail(c) ==
    /\ inv[c].pc = "batchUpdate"
    /\ inv' = [inv EXCEPT ![c] = Failed(inv[c], "batchUpdate", inv[c].payload)]
    /\ UNCHANGED <<doc, ret>>

CreateOk(c) ==
    /\ inv[c].pc = "create"
    /\ inv' = [inv EXCEPT ![c] =
                 CreateDocumentCreated(Called(inv[c], Call("create", TRUE, <<>>, <<>>)))]
    /\ UNCHANGED <<doc, ret>>

CreateFail(c) ==
    /\ inv[c].pc = "create"
    /\ inv' = [inv EXCEPT ![c] = Failed(inv[c], "create", <<>>)]
    /\ UNCHANGED <<doc, ret>>

ListOk(c) ==
    /\ inv[c].pc = "list"
    /\ inv' = [inv EXCEPT ![c] =
                 Returned(Called(inv[c], Call("list", TRUE, <<>>, <<>>)), <<"documents">>)]
    /\ UNCHANGED <<doc, ret>>

ListFail(c) ==
    /\ inv[c].pc = "list"
    /\ inv' = [inv EXCEPT ![c] = Failed(inv[c], "list", <<>>)]
    /\ UNCHANGED <<doc, ret>>

----------------------------------------------------------------------------
(* Callers invoking the tools on one document *)

\* a document with tabs: "a" (with a child "c") and "b"; "a" and "b" have
\* the same title but for its case, and "b" has no content of its own
TabbedDoc ==
    LET text(t) == Indexed(<<Paragraph("NORMAL_TEXT", <<TextRun(t)>>)>>, 1)
        c == [tabId |-> "c", title |-> <<"T">>, index |-> 0,
              body |-> Body(<<1, 1>>, text(<<NL>>)), childTabs |-> <<>>]
        a == [tabId |-> "a", title |-> <<"N", "o">>, index |-> 0,
              body |-> Body(<<1>>, text(<<"x", NL>>)), childTabs |-> <<c>>]
        b == [tabId |-> "b", title |-> <<"N", "O">>, index |-> 1,
              body |-> Body(<<2>>, <<>>), childTabs |-> <<>>]
    IN  Document(<<a, b>>, LegacyBody)

\* a document from before tabs: a flat body only
LegacyDoc ==
    Document(<<>>, Body(<<>>, Indexed(<<Paragraph("NORMAL_TEXT",
                                          <<TextRun(<<"x", NL>>)>>)>>, 1)))

\* the (tab_id, tab_title) pairs, texts and indexes callers pass
TabArgs == {"", "b", "zzz"} \X { <<>>, <<"n", "o">>, <<"q">> }
Texts == { <<>>, <<"h", "i">> }
Indexes == { 1, 2 }

WithTab(args, p) == [args EXCEPT !.tab_id = p[1], !.tab_title = p[2]]

\* the batch callers pass to batch_update beside the other tools
ToolBatches ==
    { << Request("op", [EmptyOp EXCEPT !.range = <<Range(1, 2, <<>>)>>]),
         ReplaceAllTextRequest(Find, ReplaceWith, TRUE) >> }

ArgsOf(tool) ==
    CASE tool \in {"list_tabs", "get_document_info", "list_documents"} -> {NoArgs}
      [] tool \in {"read_document", "replace_text"} ->
            { WithTab(NoArgs, p) : p \in TabArgs }
      [] tool = "create_document" -> { [NoArgs EXCEPT !.text = t] : t \in Texts }
      [] tool = "append_text" ->
            { WithTab([NoArgs EXCEPT !.text = t], p) : p \in TabArgs, t \in Texts }
      [] tool = "insert_text" ->
            { WithTab([NoArgs EXCEPT !.text = t, !.index = n], p) :
                p \in TabArgs, t \in Texts, n \in Indexes }
      [] tool = "batch_update" ->
            { WithTab([NoArgs EXCEPT !.requests = b], p) :
                p \in TabArgs, b \in ToolBatches }

Tools ==
    {"list_tabs", "read_document", "get_document_info", "create_document",
     "append_text", "insert_text", "replace_text", "batch_update",
     "list_documents"}

NoCall == [fn |-> "none", args |-> <<>>, out |-> <<>>]

InitTools ==
    /\ doc \in {TabbedDoc, LegacyDoc}
    /\ ret = NoCall
    /\ inv = [c \in Callers |-> Idle]

InvokeTool(c) ==
    /\ inv[c].pc = "idle"
    /\ \E tool \in Tools : \E args \in ArgsOf(tool) : Invoke(c, tool, args)

NextTools ==
    \E c \in Callers :
        \/ InvokeTool(c)
        \/ GetOk(c)
        \/ GetFail(c)
        \/ BatchUpdateOk(c)
        \/ BatchUpdateFail(c)
        \/ CreateOk(c)
        \/ CreateFail(c)
        \/ ListOk(c)
        \/ ListFail(c)

SpecTools == InitTools /\ [][NextTools]_vars

----------------------------------------------------------------------------
(* One caller of batch_update, over the shapes of edit requests *)

Unscoped == <<>>
Scoped == <<"c">>

\* operation bodies with at most one of location, range, insertionLocation
Positioned ==
    {EmptyOp}
    \cup { [EmptyOp EXCEPT !.location = <<Location(1, t)>>] : t \in {Unscoped, Scoped} }
    \cup { [EmptyOp EXCEPT !.range = <<Range(1, 2, t)>>] : t \in {Unscoped, Scoped} }
    \cup { [EmptyOp EXCEPT !.insertionLocation = <<Location(1, t)>>] :
              t \in {Unscoped, Scoped} }
    \cup { [EmptyOp EXCEPT !.location = <<Location(1, Unscoped)>>,
                           !.range = <<Range(1, 2, Scoped)>>] }

\* ... and with or without a text-match criterion and a tabs criterion
Matching(op_body) ==
    { op_body,
      [op_body EXCEPT !.containsText = <<[text |-> Find, matchCase |-> TRUE]>>],
      [op_body EXCEPT !.containsText = <<[text |-> Find, matchCase |-> TRUE]>>,
                      !.tabsCriteria = <<TabsCriteria("c")>>] }

\* ... and bodies that hold a range or a criterion one level further down
Nesting ==
    { [EmptyOp EXCEPT !.nested = <<[EmptyOp EXCEPT !.range = <<Range(1, 2, Unscoped)>>]>>],
      [EmptyOp EXCEPT !.nested =
          <<[EmptyOp EXCEPT !.containsText = <<[text |-> Find, matchCase |-> TRUE]>>]>>] }

RequestShapes ==
    { Request("op", b) : b \in UNION { Matching(q) : q \in Positioned } }
    \cup { Request("op", b) : b \in Nesting }
    \cup { Request("op", NotADict) }
    \cup { Request("op", [EmptyOp EXCEPT !.location = <<Location(1, Unscoped)>>])
             \o Request("op2", [EmptyOp EXCEPT !.range = <<Range(1, 2, Unscoped)>>]) }

InitBatch ==
    /\ doc \in {TabbedDoc, LegacyDoc}
    /\ ret = NoCall
    /\ inv = [c \in Callers |-> Idle]

InvokeBatchUpdate ==
    /\ inv["c1"].pc = "idle"
    /\ \E p \in TabArgs : \E n \in 0..MaxRequests : \E b \in [1..n -> RequestShapes] :
          Invoke("c1", "batch_update", WithTab([NoArgs EXCEPT !.requests = b], p))

NextBatch ==
    \/ InvokeBatchUpdate
    \/ GetOk("c1")
    \/ GetFail("c1")
    \/ BatchUpdateOk("c1")
    \/ BatchUpdateFail("c1")

SpecBatch == InitBatch /\ [][NextBatch]_vars

----------------------------------------------------------------------------
(* The tab helpers applied to a fetched document *)

\* the tab_id and tab_title arguments callers pass
TabIdArgs == {"", "a", "b", "zzz"}
TabTitleArgs == {<<>>, <<"n", "o">>, <<"T">>, <<"q">>}


InitTabs ==
    /\ \E n \in 0..MaxTabs : \E f \in Forests(n) :
          doc = Document(Place(f, <<>>), LegacyBody)
    /\ ret = NoCall
    /\ inv = [c \in Callers |-> Idle]

CallFlattenTabs ==
    /\ ret.fn = "none"
    /\ ret' = [fn |-> "_flatten_tabs", args |-> <<doc.tabs>>,
               out |-> _flatten_tabs(doc.tabs, 0)]
    /\ UNCHANGED <<doc, inv>>

CallResolveTab ==
    /\ ret.fn = "none"
    /\ \E tab_id \in TabIdArgs, tab_title \in TabTitleArgs :
          ret' = [fn |-> "_resolve_tab", args |-> <<tab_id, tab_title>>,
                  out |-> _resolve_tab(doc, tab_id, tab_title)]
    /\ UNCHANGED <<doc, inv>>

NextTabs == CallFlattenTabs \/ CallResolveTab

SpecTabs == InitTabs /\ [][NextTabs]_vars

InitText ==
    /\ \E n \in 0..MaxElements : \E c \in [1..n -> StructuralElements] :
          doc = Document(<<>>, Body(<<>>, Indexed(c, 1)))
    /\ ret = NoCall
    /\ inv = [c \in Callers |-> Idle]

CallExtractText ==
    /\ ret.fn = "none"
    /\ ret' = [fn |-> "_extract_text_from_body", args |-> <<doc.body>>,
               out |-> _extract_text_from_body(doc.body)]
    /\ UNCHANGED <<doc, inv>>

NextText == CallExtractText

SpecText == InitText /\ [][NextText]_vars

----------------------------------------------------------------------------
(* Properties of the tab helpers *)

\* the places of the tabs of a tab tree
RECURSIVE PathsUnder(_, _)
PathsUnder(f, prefix) ==
    UNION { {prefix \o <<i>>} \cup PathsUnder(f[i].childTabs, prefix \o <<i>>) :
            i \in DOMAIN f }

RECURSIVE TabAt(_, _)
TabAt(f, path) ==
    IF Len(path) = 1 THEN f[path[1]]
    ELSE TabAt(f[path[1]].childTabs, Tail(path))

\* p comes before q in pre-order: p is an ancestor of q, or p branches off
\* to an earlier sibling
PathBefore(p, q) ==
    \/ Len(p) < Len(q) /\ SubSeq(q, 1, Len(p)) = p
    \/ \E k \in 1..Len(p) :
          /\ k <= Len(q)
          /\ SubSeq(p, 1, k - 1) = SubSeq(q, 1, k - 1)
          /\ p[k] < q[k]

\* C6: _flatten_tabs returns exactly one entry per tab of the forest, in
\* pre-order (a parent before its descendants, siblings in their order),
\* each carrying its tab's fields and its depth (0 at the top level, one
\* more per ancestor); the forest given is the forest afterwards.
FlattenIsPreorder ==
    ret.fn = "_flatten_tabs" =>
        LET flat  == ret.out
            paths == PathsUnder(doc.tabs, <<>>)
            at(i) == flat[i].tab.body.addr
        IN  /\ ret.args = <<doc.tabs>>
            /\ Len(flat) = Cardinality(paths)
            /\ \A i \in 1..Len(flat) :
                  /\ at(i) \in paths
                  /\ flat[i].tab = TabAt(doc.tabs, at(i))
                  /\ flat[i].depth = Len(at(i)) - 1
                  /\ flat[i].tabId = flat[i].tab.tabId
                  /\ flat[i].title = flat[i].tab.title
                  /\ flat[i].index = at(i)[Len(at(i))] - 1
            /\ \A i, j \in 1..Len(flat) : i < j => PathBefore(at(i), at(j))

\* a forest in which a nested tab is followed by a top-level sibling has
\* been flattened
FlattenNestedWitness ==
    /\ ret.fn = "_flatten_tabs"
    /\ Len(ret.out) = 3
    /\ ret.out[2].depth = 1
    /\ ret.out[3].depth = 0

\* the first entry of a flattened list to satisfy a test, if any
FirstWith(flat, Test(_)) ==
    LET hits == { i \in 1..Len(flat) : Test(flat[i]) }
    IN  IF hits = {} THEN <<>>
        ELSE <<flat[CHOOSE i \in hits : \A j \in hits : i <= j]>>

ResolveCalled == ret.fn = "_resolve_tab"
ReqId == ret.args[1]
ReqTitle == ret.args[2]

\* C1: on a document with tabs the resolver selects, by identifier when one
\* is given (whether or not a title is given too), the first pre-order
\* entry with that identifier; else by title, the first entry whose title
\* equals it case-insensitively; else the first entry; and returns that
\* tab's body and identifier.
ResolveSelectsByIdThenTitle ==
    (ResolveCalled /\ doc.tabs # <<>>) =>
        LET flat == _flatten_tabs(doc.tabs, 0)
            HasId(e) == e.tabId = ReqId
            HasTitle(e) == Lower(e.title) = Lower(ReqTitle)
            IsEntry(e) == TRUE
            choice == IF ReqId # "" THEN FirstWith(flat, HasId)
                      ELSE IF ReqTitle # <<>> THEN FirstWith(flat, HasTitle)
                      ELSE FirstWith(flat, IsEntry)
        IN  choice # <<>> =>
                ret.out = Return(choice[1].tab.body, choice[1].tabId)

\* the request names a tab (by identifier or by title) and no entry of the
\* flattened document has that identifier or, case-insensitively, that title
NoEntryMatches ==
    /\ ReqId # "" \/ ReqTitle # <<>>
    /\ LET flat == _flatten_tabs(doc.tabs, 0)
       IN  \A i \in 1..Len(flat) :
              /\ ~(ReqId # "" /\ flat[i].tabId = ReqId)
              /\ ~(ReqTitle # <<>> /\ Lower(flat[i].title) = Lower(ReqTitle))

\* C2 as stated: on every document, a legacy one without tabs included, a
\* request that names a tab no entry matches fails with tab-not-found
\* carrying the identifier and the title, and returns no body.
ResolveFailsWhenNoMatch ==
    (ResolveCalled /\ NoEntryMatches) =>
        ret.out = TabNotFound(ReqId, ReqTitle)

\* C2 amended: on a document with at least one tab, a request that names a
\* tab no entry matches fails with tab-not-found carrying the identifier and
\* the title, and returns no body; on a document without tabs the resolver
\* returns the legacy body and an empty identifier whatever was requested.
ResolveFailsWhenNoMatchInTabs ==
    /\ (ResolveCalled /\ NoEntryMatches /\ doc.tabs # <<>>) =>
           ret.out = TabNotFound(ReqId, ReqTitle)
    /\ (ResolveCalled /\ doc.tabs = <<>>) =>
           ret.out = Return(doc.body, "")

ResolveNoMatchWitness ==
    /\ ResolveCalled
    /\ NoEntryMatches
    /\ Len(doc.tabs) = 2
    /\ ReqId = "zzz"
    /\ ReqTitle = <<"q">>
    /\ ret.out.kind = "ValueError"

----------------------------------------------------------------------------
(* Properties of the content extractor *)

\* n '#' characters
Hashes(n) == [i \in 1..n |-> "#"]

\* the name of the heading style of level n
HeadingStyle(n) ==
    "HEADING_" \o (CASE n = 1 -> "1" [] n = 2 -> "2" [] n = 3 -> "3"
                      [] n = 4 -> "4" [] n = 5 -> "5" [] n = 6 -> "6")

\* the markdown prefix the rendering gives a named style
ExpectedPrefix(style) ==
    IF \E n \in 1..6 : style = HeadingStyle(n)
    THEN Hashes(CHOOSE n \in 1..6 : style = HeadingStyle(n)) \o <<" ">>
    ELSE IF style = "TITLE" THEN <<"#", " ">>
    ELSE IF style = "SUBTITLE" THEN <<"#", "#", " ">>
    ELSE <<>>

\* the text of a paragraph: its text runs' contents in order, without the
\* newlines that end it
ExpectedLine(para) ==
    LET runs == SelectSeq(para.elements, LAMBDA e : e.textRun # <<>>)
        text == Concat([i \in DOMAIN runs |-> runs[i].textRun[1]])
        keep == CHOOSE k \in 0..Len(text) :
                    /\ \A i \in (k + 1)..Len(text) : text[i] = NL
                    /\ k > 0 => text[k] # NL
    IN  SubSeq(text, 1, keep)

\* whether a structural element contributes a line to the rendering
Renders(e) ==
    /\ e.paragraph # <<>>
    /\ \/ ExpectedLine(e.paragraph[1]) # <<>>
       \/ ExpectedPrefix(e.paragraph[1].namedStyleType) = <<>>

\* the line a rendered element contributes
RenderedLine(e) ==
    IF ExpectedLine(e.paragraph[1]) = <<>> THEN <<>>
    ELSE ExpectedPrefix(e.paragraph[1].namedStyleType)
             \o ExpectedLine(e.paragraph[1])

\* text is the lines, in order, with one newline between neighbours
IsJoinOf(text, lines) ==
    /\ Len(text) = Len(Concat(lines)) + (IF lines = <<>> THEN 0 ELSE Len(lines) - 1)
    /\ \A k \in 1..Len(lines) :
          LET start == Len(Concat(SubSeq(lines, 1, k - 1))) + (k - 1)
          IN  /\ SubSeq(text, start + 1, start + Len(lines[k])) = lines[k]
              /\ k < Len(lines) => text[start + Len(lines[k]) + 1] = NL

\* C8: the rendering of a body is, in document order and joined by single
\* newlines, one line per paragraph: prefix + line when the paragraph's
\* line (its text runs' contents, trailing newlines stripped) is not empty,
\* an empty line when the line is empty and the style has no prefix, and
\* nothing when the line is empty under a heading style; elements that are
\* not paragraphs render nothing.
ExtractRendersParagraphs ==
    ret.fn = "_extract_text_from_body" =>
        LET rendered == SelectSeq(doc.body.content, Renders)
            lines == [k \in DOMAIN rendered |-> RenderedLine(rendered[k])]
        IN  IsJoinOf(ret.out, lines)

\* a body with a heading, a blank normal paragraph and an empty heading
\* has been rendered
ExtractWitness ==
    /\ ret.fn = "_extract_text_from_body"
    /\ Len(doc.body.content) = 2
    /\ doc.body.content[1].paragraph # <<>>
    /\ doc.body.content[1].paragraph[1].namedStyleType = "HEADING_2"
    /\ doc.body.content[1].paragraph[1].elements
           = <<TextRun(<<"x">>), TextRun(<<"y", NL>>)>>
    /\ doc.body.content[2].paragraph # <<>>
    /\ doc.body.content[2].paragraph[1].namedStyleType = "NORMAL_TEXT"
    /\ doc.body.content[2].paragraph[1].elements = <<TextRun(<<NL>>)>>
    /\ ret.out = <<"#", "#", " ", "x", "y", NL>>

----------------------------------------------------------------------------
(* Properties of the tool invocations *)

CallsTo(i, api) == { k \in 1..Len(i.calls) : i.calls[k].api = api }

\* no entry of the document's flattened tabs has the identifier asked for
\* or, case-insensitively, the title asked for
NoTabMatches(d, tab_id, tab_title) ==
    LET flat == _flatten_tabs(d.tabs, 0)
    IN  \A k \in 1..Len(flat) :
           /\ ~(tab_id # "" /\ flat[k].tabId = tab_id)
           /\ ~(tab_title # <<>> /\ Lower(flat[k].title) = Lower(tab_title))

TabTools ==
    {"read_document", "append_text", "insert_text", "replace_text", "batch_update"}

NamesATab(i) == i.args.tab_id # "" \/ i.args.tab_title # <<>>

\* the handler has got past its fetch, or has none to make
PastFetch(i) == i.pc \in {"batchUpdate", "returned"} \/ i.result.kind = "ValueError"

\* C3 as stated: a tab-targeting tool invoked with a tab_id or tab_title
\* that matches no tab of the document ends in tab-not-found and forwards
\* no edit request.
ToolsStopWhenNoTabMatches ==
    \A c \in Callers :
        LET i == inv[c]
        IN  (/\ i.tool \in TabTools
             /\ NamesATab(i)
             /\ NoTabMatches(doc, i.args.tab_id, i.args.tab_title)
             /\ PastFetch(i))
            => /\ i.result = TabNotFound(i.args.tab_id, i.args.tab_title)
               /\ CallsTo(i, "batchUpdate") = {}

\* the handler passes the request to _resolve_tab: read_document and
\* append_text whenever a tab is named, the other three only for a title
\* given without an identifier
ConsultsResolver(i) ==
    \/ i.tool \in {"read_document", "append_text"} /\ NamesATab(i)
    \/ /\ i.tool \in {"insert_text", "replace_text", "batch_update"}
       /\ i.args.tab_id = ""
       /\ i.args.tab_title # <<>>

\* C3 amended: a tab-targeting tool that resolves the named tab against the
\* fetched document, when that document has tabs and none matches, ends in
\* tab-not-found carrying the identifier and the title, having made no
\* remote call but the fetch.
ToolsStopWhenResolverFindsNoTab ==
    \A c \in Callers :
        LET i == inv[c]
        IN  (/\ ConsultsResolver(i)
             /\ doc.tabs # <<>>
             /\ NoTabMatches(doc, i.args.tab_id, i.args.tab_title)
             /\ i.pc # "get"
             /\ i.result.kind # "HttpError")
            => /\ i.pc = "raised"
               /\ i.result = TabNotFound(i.args.tab_id, i.args.tab_title)
               /\ Len(i.calls) = 1
               /\ i.calls[1].api = "get"

\* batch_update, given a title no tab has, has fetched a document with tabs
ToolStoppedWitness ==
    \E c \in Callers :
        /\ inv[c].tool = "batch_update"
        /\ inv[c].args.tab_id = ""
        /\ inv[c].args.tab_title = <<"q">>
        /\ doc.tabs # <<>>
        /\ inv[c].pc = "raised"
        /\ inv[c].result.kind = "ValueError"

\* the append offset of a body: 1 without structural elements, else the
\* end offset of the last one less one
AppendOffset(body) ==
    IF Len(body.content) = 0 THEN 1
    ELSE body.content[Len(body.content)].endIndex - 1

\* C7: once append_text has resolved the body it forwards exactly one
\* insertText request, at the body's append offset, whose text is the
\* caller's text with one newline before it exactly when the text is not
\* empty and the offset is greater than 1, and the caller's text otherwise.
AppendForwardsOneInsertText ==
    \A c \in Callers :
        LET i == inv[c]
        IN  (i.tool = "append_text" /\ i.body # <<>>) =>
               LET offset == AppendOffset(i.body[1])
                   text == IF i.args.text # <<>> /\ offset > 1
                           THEN <<NL>> \o i.args.text ELSE i.args.text
               IN  /\ Len(i.payload) = 1
                   /\ Len(i.payload[1]) = 1
                   /\ i.payload[1][1][1] = "insertText"
                   /\ i.payload[1][1][2].location # <<>>
                   /\ i.payload[1][1][2].location[1].index = offset
                   /\ i.payload[1][1][2].text = <<text>>
                   /\ Cardinality(CallsTo(i, "batchUpdate")) <= 1
                   /\ \A k \in CallsTo(i, "batchUpdate") :
                          i.calls[k].requests = i.payload

\* C9: whenever the service executes the insertText of an append_text, the
\* request's index is the append offset the target body has at that moment.
AppendLandsAtEnd ==
    \A c \in Callers :
        LET i == inv[c]
        IN  i.tool = "append_text" =>
               \A k \in CallsTo(i, "batchUpdate") :
                  i.calls[k].ok =>
                     i.calls[k].requests[1][1][2].location[1].index
                        = i.calls[k].endOffset[1]

\* C10: an invocation makes at most one fetch and at most one batchUpdate,
\* the fetch first; a remote call that fails is the invocation's last and
\* ends it.
OneFetchOneEdit ==
    \A c \in Callers :
        LET i == inv[c]
        IN  /\ Cardinality(CallsTo(i, "get")) <= 1
            /\ Cardinality(CallsTo(i, "batchUpdate")) <= 1
            /\ \A g \in CallsTo(i, "get"), b \in CallsTo(i, "batchUpdate") : g < b
            /\ \A k \in 1..Len(i.calls) :
                  ~i.calls[k].ok =>
                     /\ k = Len(i.calls)
                     /\ i.pc = "raised"
                     /\ i.result = HttpError(i.calls[k].api)

\* an invocation fetched the document and its batchUpdate failed
FetchThenFailedEditWitness ==
    \E c \in Callers :
        /\ Len(inv[c].calls) = 2
        /\ inv[c].calls[1].api = "get" /\ inv[c].calls[1].ok
        /\ inv[c].calls[2].api = "batchUpdate" /\ ~inv[c].calls[2].ok
        /\ inv[c].pc = "raised"

----------------------------------------------------------------------------
(* Properties of the scope rewriting *)

PositionKeys == {"location", "range", "insertionLocation"}

\* batch_update has rewritten its requests (it is about to forward them, or has)
Rewritten(i) == i.tool = "batch_update" /\ i.target = "document"

\* in operation body `out`, rewritten from `in`, every position field
\* carries a tab scope, the caller's or else T, and a text-match criterion
\* comes with a tabs criterion, the caller's or else exactly [T]
ScopedFrom(in, out, T) ==
    /\ \A key \in PositionKeys :
          out[key] # <<>> =>
             /\ out[key][1].tabId # <<>>
             /\ out[key][1].tabId =
                   IF in[key][1].tabId # <<>> THEN in[key][1].tabId ELSE <<T>>
    /\ out.containsText # <<>> =>
          /\ out.tabsCriteria # <<>>
          /\ out.tabsCriteria =
                IF in.tabsCriteria # <<>> THEN in.tabsCriteria
                ELSE <<TabsCriteria(T)>>

\* C4 as stated: with a non-empty resolved identifier, every location, range
\* and insertionLocation of every request, at any nesting, carries a tab
\* scope, and every request that contains containsText a tabs criterion.
BatchScopesEveryField ==
    \A c \in Callers :
        LET i == inv[c]
            in == Items(i.args.requests)
            out == Items(i.payload)
        IN  (Rewritten(i) /\ i.resolved_tab_id # "") =>
               \A k \in 1..Len(out) :
                  out[k][2].isDict =>
                     /\ ScopedFrom(in[k][2], out[k][2], i.resolved_tab_id)
                     /\ out[k][2].nested # <<>> =>
                           ScopedFrom(in[k][2].nested[1], out[k][2].nested[1],
                                      i.resolved_tab_id)

\* C4 amended: with a non-empty resolved identifier, every location, range
\* and insertionLocation that is a key of a request's operation body carries
\* a tab scope (the caller's, or the resolved identifier), and every
\* operation body that has the key containsText has a tabs criterion (the
\* caller's, or exactly the resolved identifier).
BatchScopesDirectFields ==
    \A c \in Callers :
        LET i == inv[c]
            in == Items(i.args.requests)
            out == Items(i.payload)
        IN  (Rewritten(i) /\ i.resolved_tab_id # "") =>
               /\ Len(out) = Len(in)
               /\ \A k \in 1..Len(out) :
                     out[k][2].isDict =>
                        ScopedFrom(in[k][2], out[k][2], i.resolved_tab_id)

\* a title was resolved to tab "a", which was given to an unscoped location
\* and to a text-match criterion, next to a request scoped by the caller
BatchScopedWitness ==
    LET i == inv["c1"]
    IN  /\ Rewritten(i)
        /\ i.args.tab_id = ""
        /\ i.resolved_tab_id = "a"
        /\ Len(i.payload) = 2
        /\ i.args.requests[1][1][2].location = <<Location(1, Unscoped)>>
        /\ i.payload[1][1][2].location = <<Location(1, <<"a">>)>>
        /\ i.args.requests[1][1][2].containsText # <<>>
        /\ i.payload[1][1][2].tabsCriteria = <<TabsCriteria("a")>>
        /\ i.payload[2][1][2].range = <<Range(1, 2, Scoped)>>

\* operation body `out` is `in` but for tab scopes added where `in` had none
OnlyScopesAdded(in, out) ==
    /\ \A key \in PositionKeys :
          /\ in[key] = <<>> => out[key] = <<>>
          /\ in[key] # <<>> =>
                /\ out[key] # <<>>
                /\ in[key][1].tabId # <<>> => out[key] = in[key]
                /\ [out[key][1] EXCEPT !.tabId = <<>>]
                      = [in[key][1] EXCEPT !.tabId = <<>>]
    /\ in.tabsCriteria # <<>> => out.tabsCriteria = in.tabsCriteria
    /\ [out EXCEPT !.location = <<>>, !.range = <<>>,
                    !.insertionLocation = <<>>, !.tabsCriteria = <<>>]
          = [in EXCEPT !.location = <<>>, !.range = <<>>,
                       !.insertionLocation = <<>>, !.tabsCriteria = <<>>]

\* every position field and every text-match criterion of the batch has
\* its scope from the caller
ExplicitlyScoped(requests) ==
    \A k \in 1..Len(Items(requests)) :
        LET b == Items(requests)[k][2]
        IN  /\ \A key \in PositionKeys : b[key] # <<>> => b[key][1].tabId # <<>>
            /\ b.containsText # <<>> => b.tabsCriteria # <<>>

\* C5: the rewriting only adds missing tab scopes: the forwarded batch has
\* the requests of the input in number and order, each unchanged but for a
\* scope added where there was none; a scope the caller gave stays as it
\* is; a batch scoped throughout by the caller, and any batch under an
\* empty resolved identifier, is forwarded equal to the input.
BatchRewriteOnlyAddsScopes ==
    \A c \in Callers :
        LET i == inv[c]
            in == i.args.requests
            out == i.payload
        IN  Rewritten(i) =>
               /\ Len(out) = Len(in)
               /\ \A k \in 1..Len(in) :
                     /\ Len(out[k]) = Len(in[k])
                     /\ \A j \in 1..Len(in[k]) :
                           /\ out[k][j][1] = in[k][j][1]
                           /\ OnlyScopesAdded(in[k][j][2], out[k][j][2])
               /\ i.resolved_tab_id = "" => out = in
               /\ ExplicitlyScoped(in) => out = in

\* under resolved identifier "b" a request scoped to "c" by the caller went
\* through as it was, before a request that was given the scope
BatchKeptScopeWitness ==
    LET i == inv["c1"]
    IN  /\ Rewritten(i)
        /\ i.resolved_tab_id = "b"
        /\ Len(i.payload) = 2
        /\ i.args.requests[1][1][2].range = <<Range(1, 2, Scoped)>>
        /\ i.payload[1] = i.args.requests[1]
        /\ i.args.requests[2][1][2].range = <<Range(1, 2, Unscoped)>>
        /\ i.payload[2][1][2].range = <<Range(1, 2, <<"b">>)>>

====
